---- MODULE Spec2Model ----
(***************************************************************************)
(* The automaton execution engine of src/src/parser/automata.rs: the Army  *)
(* (an arena of Automaton values), Army::recruit and Army::command.        *)
(*                                                                         *)
(* A Rawtomaton (a raw pointer into the arena) is modelled as the index of *)
(* the automaton in the arena: typed_arena never moves or frees a value,   *)
(* so the n-th allocation keeps the same address for the arena's lifetime. *)
(***************************************************************************)
EXTENDS Integers, Sequences, FiniteSets, TLC

\* Bounds of the model: the number of recruit and command calls the driver
\* makes on one Army, under Spec (all the batches below) and under SpecDeep
\* (longer runs over the batches that build and complete ancestor chains).
MaxCalls == 3
MaxDeepCalls == 4

\* Program constants.
ActionsCapacity == 3        \* ArrayVec<[AutomatonCommand; 3]>

Rules == {"R0", "R1"}
Continuation == {"PassDie", "PassAdvance", "Advance"}

\* Option<T>
None == <<>>
Some(x) == <<x>>

\* u32 addition.  route and state are u32; within MaxCalls calls no value
\* comes near 2^32, so the sum never overflows in the explored behaviours.
AddU32(x, y) == x + y

\* Mutant of Automaton_new: the route argument is dropped.
Automaton_new_NoRoute(rule, route) ==
    [rule |-> rule, route |-> 0, state |-> 0,
     parent |-> None, children |-> <<>>]

\* Automaton::new
Automaton_new(rule, route) ==
    [rule |-> rule, route |-> route, state |-> 0,
     parent |-> None, children |-> <<>>]

\* impl PartialEq for Automaton: rule, route and state only
AutomatonEq(a, b) ==
    a.rule = b.rule /\ a.route = b.route /\ a.state = b.state

\* AutomatonCommand
Advance == [kind |-> "Advance"]
Victory == [kind |-> "Victory"]
Die == [kind |-> "Die"]
Fallthrough == [kind |-> "Fallthrough"]
Recruit(rule, route, how_many, on_victory) ==
    [kind |-> "Recruit", rule |-> rule, route |-> route,
     how_many |-> how_many, on_victory |-> on_victory]

\* CommandResult::default()
CommandResult_default ==
    [new_recruits |-> <<>>, reactivated |-> <<>>, victorious |-> None,
     remove |-> FALSE, fallthrough |-> FALSE]

\* actions.contains(&AutomatonCommand::Die)
\* Mutant of ContainsDie: only a Die in the last position counts.
ContainsDie_Last(actions) ==
    actions # <<>> /\ actions[Len(actions)].kind = "Die"

ContainsDie(actions) == \E i \in 1..Len(actions) : actions[i].kind = "Die"

\* The parent handle and the continuation of an automaton with a parent.
ParentOf(a) == a.parent[1][1]
ContOf(a) == a.parent[1][2]

(***************************************************************************)
(* The interpreter's working state during one command() call:              *)
(* arena (the Army), clone (the memo of get_clone), result.                *)
(***************************************************************************)

\* Mutant of get_clone: the memo is never consulted, every use allocates.
get_clone_NoMemo(st, auto) ==
    [st EXCEPT !.arena = Append(@, @[auto]),
               !.clone = Some(Len(st.arena) + 1)]

\* The get_clone closure: the clone of *auto, allocated on first use.
get_clone(st, auto) ==
    IF st.clone # None
    THEN st
    ELSE [st EXCEPT !.arena = Append(@, @[auto]),
                    !.clone = Some(Len(st.arena) + 1)]

\* Mutant of RecruitParent: under die the link goes to the automaton
\* allocated last, not to auto.
RecruitParent_LastAllocated(st, auto, die) ==
    IF die THEN Len(st.arena) ELSE st.clone[1]

\* The parent given to a spawned automaton (st is the state get_clone left).
RecruitParent(st, auto, die) == IF die THEN auto ELSE st.clone[1]

\* Mutant of RecruitLoop: die is not cleared after the first recruit.
RECURSIVE RecruitLoop_KeepDie(_, _, _, _, _)
RecruitLoop_KeepDie(st, auto, cmd, i, die) ==
    IF i >= cmd.how_many
    THEN st
    ELSE LET new == Len(st.arena) + 1
             st1 == [st EXCEPT !.arena =
                        Append(@, Automaton_new(cmd.rule, AddU32(cmd.route, i)))]
             st2 == IF die THEN st1 ELSE get_clone(st1, auto)
             par == RecruitParent(st2, auto, die)
             st3 == [st2 EXCEPT
                        !.arena[new].parent = Some(<<par, cmd.on_victory>>),
                        !.result.new_recruits = Append(@, new)]
         IN  RecruitLoop_KeepDie(st3, auto, cmd, i + 1, die)

\* Mutant of RecruitLoop: the clone is taken for every recruit, also for
\* the one that links to auto itself.
RECURSIVE RecruitLoop_EagerClone(_, _, _, _, _)
RecruitLoop_EagerClone(st, auto, cmd, i, die) ==
    IF i >= cmd.how_many
    THEN st
    ELSE LET new == Len(st.arena) + 1
             st1 == [st EXCEPT !.arena =
                        Append(@, Automaton_new(cmd.rule, AddU32(cmd.route, i)))]
             st2 == get_clone(st1, auto)
             par == RecruitParent(st2, auto, die)
             st3 == [st2 EXCEPT
                        !.arena[new].parent = Some(<<par, cmd.on_victory>>),
                        !.result.new_recruits = Append(@, new)]
         IN  RecruitLoop_EagerClone(st3, auto, cmd, i + 1, FALSE)

\* for i in 0..*how_many { ... } of the Recruit arm
RECURSIVE RecruitLoop(_, _, _, _, _)
RecruitLoop(st, auto, cmd, i, die) ==
    IF i >= cmd.how_many
    THEN st
    ELSE LET new == Len(st.arena) + 1
             st1 == [st EXCEPT !.arena =
                        Append(@, Automaton_new(cmd.rule, AddU32(cmd.route, i)))]
             st2 == IF die THEN st1 ELSE get_clone(st1, auto)
             par == RecruitParent(st2, auto, die)
             st3 == [st2 EXCEPT
                        !.arena[new].parent = Some(<<par, cmd.on_victory>>),
                        !.result.new_recruits = Append(@, new)]
         IN  RecruitLoop(st3, auto, cmd, i + 1, FALSE)

\* Mutant of VictoryHop: the parent is mutated in place whatever die is.
VictoryHop_AlwaysInPlace(st, auto, die) ==
    LET p0 == ParentOf(st.arena[auto])
    IN  [st |-> [st EXCEPT !.arena[p0].state = AddU32(@, 1),
                           !.arena[p0].children = Append(@, auto)],
         parent |-> p0]

\* Mutant of VictoryHop: the parent is cloned whatever die is.
VictoryHop_AlwaysClone(st, auto, die) ==
    LET a == st.arena[auto]
        p0 == ParentOf(a)
        p == Len(st.arena) + 1
        c == Len(st.arena) + 2
        pv == [st.arena[p0] EXCEPT !.state = AddU32(@, 1),
                                   !.children = Append(@, c)]
    IN  [st |-> [st EXCEPT !.arena = Append(Append(@, pv), a)],
         parent |-> p]

\* Mutant of VictoryHop: the completed child is put in front of the
\* parent's children instead of behind them.
VictoryHop_Prepend(st, auto, die) ==
    LET a == st.arena[auto]
        p0 == ParentOf(a)
    IN  IF die
        THEN [st |-> [st EXCEPT !.arena[p0].state = AddU32(@, 1),
                                !.arena[p0].children = <<auto>> \o @],
              parent |-> p0]
        ELSE LET p == Len(st.arena) + 1
                 c == Len(st.arena) + 2
                 pv == [st.arena[p0] EXCEPT !.state = AddU32(@, 1),
                                            !.children = <<c>> \o @]
             IN  [st |-> [st EXCEPT !.arena = Append(Append(@, pv), a)],
                  parent |-> p]

\* One hop of the Victory loop onto the parent of auto: in place when die,
\* on fresh clones of the parent and of auto otherwise.  Returns the new
\* interpreter state and the handle the code then calls parent.
VictoryHop(st, auto, die) ==
    LET a == st.arena[auto]
        p0 == ParentOf(a)
    IN  IF die
        THEN [st |-> [st EXCEPT !.arena[p0].state = AddU32(@, 1),
                                !.arena[p0].children = Append(@, auto)],
              parent |-> p0]
        ELSE LET p == Len(st.arena) + 1
                 c == Len(st.arena) + 2
                 pv == [st.arena[p0] EXCEPT !.state = AddU32(@, 1),
                                            !.children = Append(@, c)]
             IN  [st |-> [st EXCEPT !.arena = Append(Append(@, pv), a)],
                  parent |-> p]

\* Mutant of VictoryLoop: the node the loop stops at under Advance is
\* reported as victorious too.
RECURSIVE VictoryLoop_ReportAtAdvance(_, _, _)
VictoryLoop_ReportAtAdvance(st, auto, die) ==
    LET a == st.arena[auto] IN
    IF a.parent = None
    THEN [st EXCEPT !.result.victorious = Some(auto)]
    ELSE LET hop == VictoryHop(st, auto, die)
             cont == ContOf(a)
         IN  CASE cont = "PassDie" ->
                    VictoryLoop_ReportAtAdvance(hop.st, hop.parent, TRUE)
               [] cont = "PassAdvance" ->
                    VictoryLoop_ReportAtAdvance(
                        [hop.st EXCEPT !.result.reactivated =
                                          Append(@, hop.parent)],
                        hop.parent, FALSE)
               [] cont = "Advance" ->
                    [hop.st EXCEPT !.result.reactivated = Append(@, hop.parent),
                                   !.result.victorious = Some(auto)]

\* Mutant of VictoryLoop: PassAdvance leaves die as it is.
RECURSIVE VictoryLoop_PassAdvanceKeepsDie(_, _, _)
VictoryLoop_PassAdvanceKeepsDie(st, auto, die) ==
    LET a == st.arena[auto] IN
    IF a.parent = None
    THEN [st EXCEPT !.result.victorious = Some(auto)]
    ELSE LET hop == VictoryHop(st, auto, die)
             cont == ContOf(a)
         IN  CASE cont = "PassDie" ->
                    VictoryLoop_PassAdvanceKeepsDie(hop.st, hop.parent, TRUE)
               [] cont = "PassAdvance" ->
                    VictoryLoop_PassAdvanceKeepsDie(
                        [hop.st EXCEPT !.result.reactivated =
                                          Append(@, hop.parent)],
                        hop.parent, die)
               [] cont = "Advance" ->
                    [hop.st EXCEPT !.result.reactivated = Append(@, hop.parent)]

\* Mutant of VictoryLoop: PassDie goes on with die = false.
RECURSIVE VictoryLoop_PassDieShared(_, _, _)
VictoryLoop_PassDieShared(st, auto, die) ==
    LET a == st.arena[auto] IN
    IF a.parent = None
    THEN [st EXCEPT !.result.victorious = Some(auto)]
    ELSE LET hop == VictoryHop(st, auto, die)
             cont == ContOf(a)
         IN  CASE cont = "PassDie" ->
                    VictoryLoop_PassDieShared(hop.st, hop.parent, FALSE)
               [] cont = "PassAdvance" ->
                    VictoryLoop_PassDieShared(
                        [hop.st EXCEPT !.result.reactivated =
                                          Append(@, hop.parent)],
                        hop.parent, FALSE)
               [] cont = "Advance" ->
                    [hop.st EXCEPT !.result.reactivated = Append(@, hop.parent)]

\* loop { match (**auto).parent { ... } } of the Victory arm
RECURSIVE VictoryLoop(_, _, _)
VictoryLoop(st, auto, die) ==
    LET a == st.arena[auto] IN
    IF a.parent = None
    THEN [st EXCEPT !.result.victorious = Some(auto)]
    ELSE LET hop == VictoryHop(st, auto, die)
             cont == ContOf(a)
         IN  CASE cont = "PassDie" ->
                    VictoryLoop(hop.st, hop.parent, TRUE)
               [] cont = "PassAdvance" ->
                    VictoryLoop([hop.st EXCEPT !.result.reactivated =
                                    Append(@, hop.parent)],
                                hop.parent, FALSE)
               [] cont = "Advance" ->
                    [hop.st EXCEPT !.result.reactivated = Append(@, hop.parent)]

\* Mutant of ApplyAction: Victory does not increment the state of auto.
ApplyAction_VictoryNoIncrement(st, auto, actions, action) ==
    CASE action.kind = "Advance" ->
            [st EXCEPT !.arena[auto].state = AddU32(@, 1)]
      [] action.kind = "Die" ->
            [st EXCEPT !.result.remove = TRUE]
      [] action.kind = "Recruit" ->
            RecruitLoop(st, auto, action, 0, ContainsDie(actions))
      [] action.kind = "Victory" ->
            VictoryLoop(st, auto, ContainsDie(actions))
      [] action.kind = "Fallthrough" ->
            [st EXCEPT !.result.fallthrough = TRUE]

\* Mutant of ApplyAction: Fallthrough shares the Advance arm.
ApplyAction_FallthroughAdvances(st, auto, actions, action) ==
    CASE action.kind \in {"Advance", "Fallthrough"} ->
            [st EXCEPT !.arena[auto].state = AddU32(@, 1),
                       !.result.fallthrough = (action.kind = "Fallthrough")]
      [] action.kind = "Die" ->
            [st EXCEPT !.result.remove = TRUE]
      [] action.kind = "Recruit" ->
            RecruitLoop(st, auto, action, 0, ContainsDie(actions))
      [] action.kind = "Victory" ->
            VictoryLoop([st EXCEPT !.arena[auto].state = AddU32(@, 1)],
                        auto, ContainsDie(actions))

\* Mutant of ApplyAction: Advance increments every automaton of the arena.
ApplyAction_AdvanceAll(st, auto, actions, action) ==
    CASE action.kind = "Advance" ->
            [st EXCEPT !.arena = [h \in 1..Len(@) |->
                                    [@[h] EXCEPT !.state = AddU32(@, 1)]]]
      [] action.kind = "Die" ->
            [st EXCEPT !.result.remove = TRUE]
      [] action.kind = "Recruit" ->
            RecruitLoop(st, auto, action, 0, ContainsDie(actions))
      [] action.kind = "Victory" ->
            VictoryLoop([st EXCEPT !.arena[auto].state = AddU32(@, 1)],
                        auto, ContainsDie(actions))
      [] action.kind = "Fallthrough" ->
            [st EXCEPT !.result.fallthrough = TRUE]

\* Mutant of ApplyAction: Die also raises the fallthrough flag.
ApplyAction_DieFallsThrough(st, auto, actions, action) ==
    CASE action.kind = "Advance" ->
            [st EXCEPT !.arena[auto].state = AddU32(@, 1)]
      [] action.kind = "Die" ->
            [st EXCEPT !.result.remove = TRUE, !.result.fallthrough = TRUE]
      [] action.kind = "Recruit" ->
            RecruitLoop(st, auto, action, 0, ContainsDie(actions))
      [] action.kind = "Victory" ->
            VictoryLoop([st EXCEPT !.arena[auto].state = AddU32(@, 1)],
                        auto, ContainsDie(actions))
      [] action.kind = "Fallthrough" ->
            [st EXCEPT !.result.fallthrough = TRUE]

\* Mutant of ApplyAction: Fallthrough sets remove instead of fallthrough.
ApplyAction_FallthroughRemoves(st, auto, actions, action) ==
    CASE action.kind = "Advance" ->
            [st EXCEPT !.arena[auto].state = AddU32(@, 1)]
      [] action.kind = "Die" ->
            [st EXCEPT !.result.remove = TRUE]
      [] action.kind = "Recruit" ->
            RecruitLoop(st, auto, action, 0, ContainsDie(actions))
      [] action.kind = "Victory" ->
            VictoryLoop([st EXCEPT !.arena[auto].state = AddU32(@, 1)],
                        auto, ContainsDie(actions))
      [] action.kind = "Fallthrough" ->
            [st EXCEPT !.result.remove = TRUE]

\* One iteration of `for action in &actions { match action { ... } }`
ApplyAction(st, auto, actions, action) ==
    CASE action.kind = "Advance" ->
            [st EXCEPT !.arena[auto].state = AddU32(@, 1)]
      [] action.kind = "Die" ->
            [st EXCEPT !.result.remove = TRUE]
      [] action.kind = "Recruit" ->
            RecruitLoop(st, auto, action, 0, ContainsDie(actions))
      [] action.kind = "Victory" ->
            VictoryLoop([st EXCEPT !.arena[auto].state = AddU32(@, 1)],
                        auto, ContainsDie(actions))
      [] action.kind = "Fallthrough" ->
            [st EXCEPT !.result.fallthrough = TRUE]

RECURSIVE ApplyFrom(_, _, _, _)
ApplyFrom(st, auto, actions, i) ==
    IF i > Len(actions)
    THEN st
    ELSE ApplyFrom(ApplyAction(st, auto, actions, actions[i]),
                   auto, actions, i + 1)

\* Mutant of command: the clone of auto is taken on entry, before any
\* command of the batch has run.
command_SnapshotAtEntry(ar, auto, actions) ==
    ApplyFrom([arena |-> Append(ar, ar[auto]),
               clone |-> Some(Len(ar) + 1),
               result |-> CommandResult_default],
              auto, actions, 1)

\* Army::command: the arena and the CommandResult it leaves.
command(ar, auto, actions) ==
    ApplyFrom([arena |-> ar, clone |-> None, result |-> CommandResult_default],
              auto, actions, 1)

(***************************************************************************)
(* The state machine: the driver calls recruit and command on one Army.    *)
(***************************************************************************)
VARIABLES
    arena,      \* Army: the automata, in allocation order
    spawn,      \* per automaton: the call whose Recruit spawned it, else 0
    calls,      \* the number of calls made so far
    last        \* the call that has just returned, with the arena before it

vars == <<arena, spawn, calls, last>>

NoCall ==
    [op |-> "none", rule |-> "", route |-> 0, auto |-> 0, actions |-> <<>>,
     result |-> CommandResult_default, before |-> <<>>]

\* The inputs the driver may pass.
RootInputs == {<<"R0", 0>>, <<"R1", 1>>}
\* Recruit commands: one or two alternatives under every continuation, and
\* none or three under Advance.
RecruitCommands ==
    {Recruit("R1", 1, n, c) : n \in 1..2, c \in Continuation}
      \cup {Recruit("R1", 1, n, "Advance") : n \in {0, 3}}
SingleRecruits == {c \in RecruitCommands : c.how_many = 1}
Commands == {Advance, Victory, Die, Fallthrough} \cup RecruitCommands
\* The batches explored: every single command; a Victory or a Recruit
\* combined with Die, in both orders; a Recruit of one automaton combined
\* with Advance or with Victory, in both orders, or given twice, with or
\* without Die; and a Victory twice, with or without Die.
Branching == {Victory} \cup RecruitCommands
Explored ==
    {<<c>> : c \in Commands}
      \cup {<<c, Die>> : c \in Branching}
      \cup {<<Die, c>> : c \in Branching}
      \cup {<<c, Advance>> : c \in SingleRecruits}
      \cup {<<Advance, c>> : c \in SingleRecruits}
      \cup {<<c, c, Die>> : c \in SingleRecruits}
      \cup {<<c, c>> : c \in SingleRecruits}
      \cup {<<c, Victory>> : c \in SingleRecruits}
      \cup {<<Victory, c>> : c \in SingleRecruits}
      \cup {<<Victory, Victory>>, <<Victory, Victory, Die>>}
\* actions: ArrayVec<[AutomatonCommand; 3]>
Batches == {b \in Explored : Len(b) <= ActionsCapacity}

\* The inputs of SpecDeep: one root; one automaton recruited, with or
\* without Die; Victory, with or without Die, or twice.
DeepRootInputs == {<<"R0", 0>>}
DeepBatches ==
    {<<c>> : c \in SingleRecruits}
      \cup {<<c, Die>> : c \in SingleRecruits}
      \cup {<<Victory>>, <<Victory, Die>>, <<Victory, Victory>>}

Handles == 1..Len(arena)

Init ==
    /\ arena = <<>>
    /\ spawn = <<>>
    /\ calls = 0
    /\ last = NoCall

\* Army::recruit(rule, route), called by the driver
DoRecruit(rule, route) ==
    /\ last.op = "none"
    /\ arena' = Append(arena, Automaton_new(rule, route))
    /\ spawn' = Append(spawn, 0)
    /\ calls' = calls + 1
    /\ last' = [NoCall EXCEPT !.op = "recruit", !.rule = rule,
                              !.route = route, !.auto = Len(arena) + 1,
                              !.before = arena]

\* Army::command(auto, actions), called by the driver
DoCommand(auto, actions) ==
    /\ last.op = "none"
    /\ LET st == command(arena, auto, actions)
       IN  /\ arena' = st.arena
           /\ spawn' = [h \in 1..Len(st.arena) |->
                          IF h <= Len(arena) THEN spawn[h]
                          ELSE IF \E j \in 1..Len(st.result.new_recruits) :
                                      st.result.new_recruits[j] = h
                               THEN calls + 1 ELSE 0]
           /\ last' = [NoCall EXCEPT !.op = "command", !.auto = auto,
                                     !.actions = actions,
                                     !.result = st.result, !.before = arena]
    /\ calls' = calls + 1

\* The driver has taken the returned value and goes on.
Return ==
    /\ last.op # "none"
    /\ last' = NoCall
    /\ UNCHANGED <<arena, spawn, calls>>

Next ==
    \/ calls < MaxCalls /\ \E in \in RootInputs : DoRecruit(in[1], in[2])
    \/ calls < MaxCalls /\ \E auto \in Handles, actions \in Batches :
                              DoCommand(auto, actions)
    \/ Return

Spec == Init /\ [][Next]_vars

NextDeep ==
    \/ calls < MaxDeepCalls /\ \E in \in DeepRootInputs :
                                  DoRecruit(in[1], in[2])
    \/ calls < MaxDeepCalls /\ \E auto \in Handles, actions \in DeepBatches :
                                  DoCommand(auto, actions)
    \/ Return

SpecDeep == Init /\ [][NextDeep]_vars

(***************************************************************************)
(* Vocabulary of the properties.  In a state where last.op = "command",    *)
(* last.before is the arena the call started from and arena the one it     *)
(* left; last.auto is the automaton A the batch last.actions was applied   *)
(* to and last.result the CommandResult returned.                          *)
(***************************************************************************)
Called == last.op = "command"
A == last.auto
Before == last.before
Result == last.result
Old == 1..Len(Before)
IsNew(h) == h \in (Len(Before) + 1)..Len(arena)

HasKind(actions, k) == \E i \in 1..Len(actions) : actions[i].kind = k
KindsOf(actions) == [i \in 1..Len(actions) |-> actions[i].kind]

IsPrefix(s, t) == Len(s) <= Len(t) /\ SubSeq(t, 1, Len(s)) = s

\* h is a proper ancestor of a in the arena ar
RECURSIVE IsAncestor(_, _, _)
IsAncestor(ar, h, a) ==
    /\ ar[a].parent # None
    /\ \/ ParentOf(ar[a]) = h
       \/ IsAncestor(ar, h, ParentOf(ar[a]))

\* C1: a batch of one Recruit{R, K, N, C} (no Die) returns exactly N new
\* recruits, in order, with state 0, rule R and routes K..K+N-1, all linked
\* with continuation C to one and the same newly allocated node that is not
\* A and holds A's value; A itself is unchanged and remove is false.
BranchingPreservesOriginals ==
    (Called /\ KindsOf(last.actions) = <<"Recruit">>) =>
        LET cmd == last.actions[1]
            rs == Result.new_recruits
        IN  /\ Len(rs) = cmd.how_many
            /\ \A i \in 1..Len(rs) :
                  /\ IsNew(rs[i])
                  /\ \A j \in 1..Len(rs) : i < j => rs[i] < rs[j]
                  /\ arena[rs[i]].state = 0
                  /\ arena[rs[i]].rule = cmd.rule
                  /\ arena[rs[i]].route = cmd.route + (i - 1)
                  /\ arena[rs[i]].children = <<>>
                  /\ arena[rs[i]].parent # None
                  /\ ContOf(arena[rs[i]]) = cmd.on_victory
                  /\ ParentOf(arena[rs[i]]) = ParentOf(arena[rs[1]])
                  /\ ParentOf(arena[rs[i]]) # A
                  /\ IsNew(ParentOf(arena[rs[i]]))
                  /\ arena[ParentOf(arena[rs[i]])] = Before[A]
            /\ arena[A] = Before[A]
            /\ Result.remove = FALSE

\* C1 witness: two or more automata were recruited by a lone Recruit from an
\* automaton that had already advanced.
BranchingPreservesOriginals_Witness ==
    /\ Called /\ KindsOf(last.actions) = <<"Recruit">>
    /\ last.actions[1].how_many >= 2
    /\ Len(Result.new_recruits) >= 2
    /\ Before[A].state > 0

\* C2: a batch [Recruit{count = N >= 2}, Die] returns remove = true; the
\* first recruit's parent is A itself, every later recruit's parent is one
\* shared newly allocated node, not A, holding A's value before the call.
ExclusiveBranching ==
    (/\ Called /\ KindsOf(last.actions) = <<"Recruit", "Die">>
     /\ last.actions[1].how_many >= 2) =>
        LET rs == Result.new_recruits
        IN  /\ Result.remove = TRUE
            /\ Len(rs) = last.actions[1].how_many
            /\ arena[rs[1]].parent # None
            /\ ParentOf(arena[rs[1]]) = A
            /\ \A i \in 2..Len(rs) :
                  /\ arena[rs[i]].parent # None
                  /\ ParentOf(arena[rs[i]]) = ParentOf(arena[rs[2]])
                  /\ ParentOf(arena[rs[i]]) # A
                  /\ IsNew(ParentOf(arena[rs[i]]))
                  /\ arena[ParentOf(arena[rs[i]])] = Before[A]

\* C2 witness: [Recruit{3}, Die] returned, so two recruits share the clone.
ExclusiveBranching_Witness ==
    /\ Called /\ KindsOf(last.actions) = <<"Recruit", "Die">>
    /\ last.actions[1].how_many = 3
    /\ Len(Result.new_recruits) = 3
\* C3: after one call has spawned two or more automata, the victory of one
\* of them never changes the state or the children of the node another of
\* them holds as its parent.
DivergentPathsIsolated ==
    (Called /\ HasKind(last.actions, "Victory") /\ spawn[A] # 0) =>
        \A s \in Old \ {A} :
            (spawn[s] = spawn[A] /\ Before[s].parent # None) =>
                LET p == ParentOf(Before[s])
                IN  /\ arena[p].state = Before[p].state
                    /\ arena[p].children = Before[p].children

\* C4: [Victory] (no Die) on A linked to (P, Advance) returns victorious =
\* None and reactivated = [P'], P' newly allocated and distinct from P, with
\* P'.state = P.state + 1 and P'.children = P.children followed by one node
\* equal to A after its victory; P keeps its state and children.
PropagatedVictory ==
    (/\ Called /\ KindsOf(last.actions) = <<"Victory">>
     /\ Before[A].parent # None
     /\ ContOf(Before[A]) = "Advance") =>
        LET P == ParentOf(Before[A])
            re == Result.reactivated
        IN  /\ Result.victorious = None
            /\ Len(re) = 1
            /\ IsNew(re[1])
            /\ re[1] # P
            /\ arena[re[1]].state = Before[P].state + 1
            /\ Len(arena[re[1]].children) = Len(Before[P].children) + 1
            /\ IsPrefix(Before[P].children, arena[re[1]].children)
            /\ arena[A].state = Before[A].state + 1
            /\ AutomatonEq(
                 arena[arena[re[1]].children[Len(arena[re[1]].children)]],
                 arena[A])
            /\ arena[P].state = Before[P].state
            /\ arena[P].children = Before[P].children

\* C4 witness: a lone Victory on an automaton whose link is (P, Advance).
PropagatedVictory_Witness ==
    /\ Called /\ KindsOf(last.actions) = <<"Victory">>
    /\ Before[A].parent # None
    /\ ContOf(Before[A]) = "Advance"
    /\ Len(Result.reactivated) = 1

\* C5: [Victory] on a parentless A increments A.state by exactly 1, returns
\* victorious = Some(A), no recruits, nothing reactivated, fallthrough false
\* and remove false.
RootVictory ==
    (/\ Called /\ KindsOf(last.actions) = <<"Victory">>
     /\ Before[A].parent = None) =>
        /\ arena[A].state = Before[A].state + 1
        /\ Result.victorious = Some(A)
        /\ Result.new_recruits = <<>>
        /\ Result.reactivated = <<>>
        /\ Result.fallthrough = FALSE
        /\ Result.remove = FALSE

\* C5 witness: a lone Victory on a root that had already advanced.
RootVictory_Witness ==
    /\ Called /\ KindsOf(last.actions) = <<"Victory">>
    /\ Before[A].parent = None
    /\ Before[A].state = 1
    /\ Result.victorious = Some(A)

\* C6: [Victory, Die] on A linked to (P, Advance) increments P.state on P
\* itself, appends to P.children a node equal to A after its victory, and
\* returns reactivated = [P], victorious = None, remove = true.
ExclusiveVictory ==
    (/\ Called /\ KindsOf(last.actions) = <<"Victory", "Die">>
     /\ Before[A].parent # None
     /\ ContOf(Before[A]) = "Advance") =>
        LET P == ParentOf(Before[A])
        IN  /\ arena[P].state = Before[P].state + 1
            /\ Len(arena[P].children) = Len(Before[P].children) + 1
            /\ IsPrefix(Before[P].children, arena[P].children)
            /\ arena[A].state = Before[A].state + 1
            /\ AutomatonEq(arena[arena[P].children[Len(arena[P].children)]],
                           arena[A])
            /\ Result.reactivated = <<P>>
            /\ Result.victorious = None
            /\ Result.remove = TRUE

\* C6 witness: [Victory, Die] on an automaton whose link is (P, Advance).
ExclusiveVictory_Witness ==
    /\ Called /\ KindsOf(last.actions) = <<"Victory", "Die">>
    /\ Before[A].parent # None
    /\ ContOf(Before[A]) = "Advance"
    /\ Result.reactivated = <<ParentOf(Before[A])>>
\* C7: no automaton's state ever decreases, and it changes only through an
\* Advance on that automaton or through a Victory, on the automaton the
\* batch is applied to and on the ancestors the victory propagates to.
StateMonotone ==
    \A h \in Old :
        /\ arena[h].state >= Before[h].state
        /\ arena[h].state # Before[h].state =>
              /\ Called
              /\ \/ /\ h = A
                    /\ \/ HasKind(last.actions, "Advance")
                       \/ HasKind(last.actions, "Victory")
                 \/ /\ HasKind(last.actions, "Victory")
                    /\ IsAncestor(Before, h, A)

\* C7 witness: a Victory has incremented the state of an ancestor in place.
StateMonotone_Witness ==
    /\ Called
    /\ \E h \in Old : h # A /\ arena[h].state = Before[h].state + 1

\* C8: no call changes the ancestry link of an automaton that already
\* exists, and every automaton reported as victorious has no parent.
AncestryFixed ==
    /\ \A h \in Old : arena[h].parent = Before[h].parent
    /\ Result.victorious # None => arena[Result.victorious[1]].parent = None

\* C8 witness: a victory propagated from a linked automaton up to a
\* parentless node, which is the one reported.
AncestryFixed_Witness ==
    /\ Called
    /\ Before[A].parent # None
    /\ Result.victorious # None
    /\ Result.victorious[1] # A

\* C9: every call leaves each automaton's children as they were, followed
\* by the children it appended: at most one per Victory of the batch, the
\* newly allocated ones in the order the victories allocated them.
ChildrenAppendOnly ==
    \A h \in Old :
        LET old == Before[h].children
            now == arena[h].children
            Victories == {i \in 1..Len(last.actions) :
                             last.actions[i].kind = "Victory"}
        IN  /\ IsPrefix(old, now)
            /\ Len(now) - Len(old) <= Cardinality(Victories)
            /\ \A i, j \in (Len(old) + 1)..Len(now) :
                  (i < j /\ IsNew(now[i]) /\ IsNew(now[j])) => now[i] < now[j]

\* C9 witness: a call appended a child to an automaton that already had one.
ChildrenAppendOnly_Witness ==
    /\ Called
    /\ \E h \in Old : /\ Before[h].children # <<>>
                      /\ Len(arena[h].children) > Len(Before[h].children)

\* C10: recruit(R, K) allocates one automaton with rule R, route K, state 0,
\* no parent and no children, returns a handle no earlier automaton has, and
\* changes no existing automaton.
RecruitAllocates ==
    last.op = "recruit" =>
        /\ Len(arena) = Len(Before) + 1
        /\ last.auto \notin Old
        /\ last.auto = Len(arena)
        /\ arena[last.auto] =
              [rule |-> last.rule, route |-> last.route, state |-> 0,
               parent |-> None, children |-> <<>>]
        /\ \A h \in Old : arena[h] = Before[h]

\* C10 witness: recruit returned on an Army that already held automata with
\* links and advanced states.
RecruitAllocates_Witness ==
    /\ last.op = "recruit"
    /\ last.route = 1
    /\ \E h \in Old : Before[h].parent # None
    /\ \E h \in Old : Before[h].state > 0
\* C11: [Advance] increments A.state by exactly 1 and returns the default
\* result; A's link and children, every other automaton and the size of the
\* arena are unchanged.
AdvanceOnly ==
    (Called /\ KindsOf(last.actions) = <<"Advance">>) =>
        /\ arena[A] = [Before[A] EXCEPT !.state = Before[A].state + 1]
        /\ Result = CommandResult_default
        /\ Len(arena) = Len(Before)
        /\ \A h \in Old \ {A} : arena[h] = Before[h]

\* C11 witness: [Advance] returned on an automaton with a parent, in an
\* arena that holds other automata.
AdvanceOnly_Witness ==
    /\ Called /\ KindsOf(last.actions) = <<"Advance">>
    /\ Before[A].parent # None
    /\ Len(Before) >= 3
    /\ arena[A].state = Before[A].state + 1

\* C12: [Die] returns remove = true and nothing else, frees nothing and
\* changes no automaton.
DieOnly ==
    (Called /\ KindsOf(last.actions) = <<"Die">>) =>
        /\ Result = [CommandResult_default EXCEPT !.remove = TRUE]
        /\ arena = Before

\* C12 witness: [Die] returned on an automaton that had advanced, in an
\* arena holding several automata.
DieOnly_Witness ==
    /\ Called /\ KindsOf(last.actions) = <<"Die">>
    /\ Result.remove
    /\ Len(Before) >= 2
    /\ Before[A].state > 0

\* C13: [Fallthrough] returns fallthrough = true and nothing else, changes
\* no automaton and allocates none.
FallthroughOnly ==
    (Called /\ KindsOf(last.actions) = <<"Fallthrough">>) =>
        /\ Result = [CommandResult_default EXCEPT !.fallthrough = TRUE]
        /\ arena = Before

\* C13 witness: [Fallthrough] returned on a recruited automaton.
FallthroughOnly_Witness ==
    /\ Called /\ KindsOf(last.actions) = <<"Fallthrough">>
    /\ Result.fallthrough
    /\ Before[A].parent # None
\* A batch made of Recruit commands, with or without Die.
RecruitBatch ==
    /\ Called
    /\ HasKind(last.actions, "Recruit")
    /\ \A i \in 1..Len(last.actions) :
          last.actions[i].kind \in {"Recruit", "Die"}

\* The number of automata the Recruit commands of a batch ask for.
RECURSIVE SumCounts(_, _)
SumCounts(actions, i) ==
    IF i > Len(actions) THEN 0
    ELSE (IF actions[i].kind = "Recruit" THEN actions[i].how_many ELSE 0)
            + SumCounts(actions, i + 1)

\* C14: a batch of Recruit commands (with or without Die) allocates the
\* spawned automata plus at most one clone of A: one when some recruit needs
\* it, none when no Recruit spawns anything or when, under Die, every
\* Recruit spawns one automaton at most; count = 0 changes nothing.
LazyCloneOnce ==
    RecruitBatch =>
        LET total == SumCounts(last.actions, 1)
            allocated == Len(arena) - Len(Before)
            rs == Result.new_recruits
            Spawned == {rs[i] : i \in 1..Len(rs)}
            Wide == \E i \in 1..Len(last.actions) :
                       /\ last.actions[i].kind = "Recruit"
                       /\ last.actions[i].how_many >= 2
        IN  /\ Len(rs) = total
            /\ Cardinality(Spawned) = total
            /\ allocated \in {total, total + 1}
            /\ total = 0 => (allocated = 0 /\ arena = Before /\ rs = <<>>)
            /\ (ContainsDie(last.actions) /\ ~Wide) => allocated = total
            /\ (ContainsDie(last.actions) /\ Wide) => allocated = total + 1
            /\ (~ContainsDie(last.actions) /\ total >= 1) =>
                  allocated = total + 1
            /\ \A h \in (Len(Before) + 1)..Len(arena) :
                  h \notin Spawned => arena[h] = Before[A]
            /\ \A h \in Old : arena[h] = Before[h]

\* C14 witness: two Recruit commands in one batch without Die spawned two
\* automata and allocated three.
LazyCloneOnce_Witness ==
    /\ Called /\ KindsOf(last.actions) = <<"Recruit", "Recruit">>
    /\ Len(Result.new_recruits) = 2
    /\ Len(arena) = Len(Before) + 3

\* C15: in a batch that contains Die, over all its Recruit commands, exactly
\* one spawned automaton has A itself as parent and all the others have one
\* shared clone of A.
OnlyFirstSpawnOnOriginal ==
    (RecruitBatch /\ ContainsDie(last.actions)
       /\ Result.new_recruits # <<>>) =>
        LET rs == Result.new_recruits
            OnA == {i \in 1..Len(rs) : ParentOf(arena[rs[i]]) = A}
        IN  /\ Cardinality(OnA) = 1
            /\ \A i, j \in (1..Len(rs)) \ OnA :
                  /\ ParentOf(arena[rs[i]]) = ParentOf(arena[rs[j]])
                  /\ IsNew(ParentOf(arena[rs[i]]))
\* A chain A -(c1)-> P -(c2)-> G in the arena before the call.
Chain(c1, c2) ==
    /\ Called
    /\ Before[A].parent # None
    /\ ContOf(Before[A]) = c1
    /\ Before[ParentOf(Before[A])].parent # None
    /\ ContOf(Before[ParentOf(Before[A])]) = c2

LastOf(seq) == seq[Len(seq)]

\* C16: with A -(PassAdvance)-> P -(Advance)-> G, [Victory, Die] mutates P
\* in place (state + 1, A appended) and records it, then goes on with die =
\* false: a fresh clone G' of G gets state + 1 and a child equal to P, the
\* result has reactivated = [P, G'] and victorious = None, and G keeps its
\* state and children.
PassAdvanceHop ==
    (Chain("PassAdvance", "Advance")
       /\ KindsOf(last.actions) = <<"Victory", "Die">>) =>
        LET P == ParentOf(Before[A])
            G == ParentOf(Before[P])
            re == Result.reactivated
        IN  /\ arena[A].state = Before[A].state + 1
            /\ arena[P].state = Before[P].state + 1
            /\ arena[P].children = Append(Before[P].children, A)
            /\ Len(re) = 2
            /\ re[1] = P
            /\ IsNew(re[2])
            /\ arena[re[2]].state = Before[G].state + 1
            /\ arena[re[2]].rule = Before[G].rule
            /\ arena[re[2]].route = Before[G].route
            /\ arena[re[2]].parent = Before[G].parent
            /\ Len(arena[re[2]].children) = Len(Before[G].children) + 1
            /\ IsPrefix(Before[G].children, arena[re[2]].children)
            /\ AutomatonEq(arena[LastOf(arena[re[2]].children)], arena[P])
            /\ Result.victorious = None
            /\ arena[G] = Before[G]

\* C16 witness: [Victory, Die] returned on such a chain with two
\* reactivated automata.
PassAdvanceHop_Witness ==
    /\ Chain("PassAdvance", "Advance")
    /\ KindsOf(last.actions) = <<"Victory", "Die">>
    /\ Len(Result.reactivated) = 2

\* C17: with A -(PassDie)-> P -(Advance)-> G, [Victory] leaves P untouched
\* and builds a clone P' (state + 1, a node equal to A appended) that is not
\* reactivated; it goes on with die = true, so G is mutated in place: state
\* + 1, P' appended; reactivated = [G] and victorious = None.
PassDieHop ==
    (Chain("PassDie", "Advance")
       /\ KindsOf(last.actions) = <<"Victory">>) =>
        LET P == ParentOf(Before[A])
            G == ParentOf(Before[P])
            P2 == LastOf(arena[G].children)
        IN  /\ arena[A].state = Before[A].state + 1
            /\ arena[P] = Before[P]
            /\ arena[G].state = Before[G].state + 1
            /\ Len(arena[G].children) = Len(Before[G].children) + 1
            /\ IsPrefix(Before[G].children, arena[G].children)
            /\ IsNew(P2)
            /\ arena[P2].state = Before[P].state + 1
            /\ arena[P2].rule = Before[P].rule
            /\ arena[P2].route = Before[P].route
            /\ arena[P2].parent = Before[P].parent
            /\ Len(arena[P2].children) = Len(Before[P].children) + 1
            /\ IsPrefix(Before[P].children, arena[P2].children)
            /\ AutomatonEq(arena[LastOf(arena[P2].children)], arena[A])
            /\ Result.reactivated = <<G>>
            /\ Result.victorious = None

\* C17 witness: [Victory] returned on such a chain and reactivated G.
PassDieHop_Witness ==
    /\ Chain("PassDie", "Advance")
    /\ KindsOf(last.actions) = <<"Victory">>
    /\ Result.reactivated = <<ParentOf(Before[ParentOf(Before[A])])>>
\* Die together with one Recruit or Victory command, in either order.
DiePair ==
    /\ Called
    /\ last.op = "command"
    /\ Len(last.actions) = 2
    /\ \/ /\ last.actions[1].kind = "Die"
          /\ last.actions[2].kind \in {"Recruit", "Victory"}
       \/ /\ last.actions[2].kind = "Die"
          /\ last.actions[1].kind \in {"Recruit", "Victory"}

\* C18: for X a Recruit or Victory command, [Die, X] and [X, Die] leave
\* the same CommandResult and the same arena (parent links, in-place and
\* cloned mutations) from the same starting arena.
DiePositionIrrelevant ==
    DiePair =>
        LET swapped == command(Before, A, <<last.actions[2], last.actions[1]>>)
        IN  /\ swapped.result = Result
            /\ swapped.arena = arena

\* C18 witness: [Die, X] returned where Die made a difference: a recruit
\* linked to A itself, or a parent mutated in place.
DiePositionIrrelevant_Witness ==
    /\ DiePair
    /\ last.actions[1].kind = "Die"
    /\ \/ /\ last.actions[2].kind = "Recruit"
          /\ last.actions[2].how_many = 2
          /\ ParentOf(arena[Result.new_recruits[1]]) = A
          /\ ParentOf(arena[Result.new_recruits[2]]) # A
       \/ /\ last.actions[2].kind = "Victory"
          /\ Before[A].parent # None
          /\ arena[ParentOf(Before[A])] # Before[ParentOf(Before[A])]

\* Following parent links from h for at most fuel hops ends at a
\* parentless automaton.
RECURSIVE ReachesRoot(_, _, _)
ReachesRoot(ar, h, fuel) ==
    IF ar[h].parent = None THEN TRUE
    ELSE IF fuel = 0 THEN FALSE
    ELSE ReachesRoot(ar, ParentOf(ar[h]), fuel - 1)

\* Where the Victory loop started on h stops: <<"root", n>> after n hops at
\* a parentless automaton, <<"advance", n, g>> at an Advance link whose
\* parent is g, <<"cycle">> when fuel hops did not end it.
RECURSIVE LoopEnd(_, _, _, _)
LoopEnd(ar, h, n, fuel) ==
    IF ar[h].parent = None THEN <<"root", n>>
    ELSE IF fuel = 0 THEN <<"cycle">>
    ELSE IF ContOf(ar[h]) = "Advance" THEN <<"advance", n + 1, ParentOf(ar[h])>>
    ELSE LoopEnd(ar, ParentOf(ar[h]), n + 1, fuel - 1)

OneVictory ==
    /\ Called
    /\ last.op = "command"
    /\ Cardinality({i \in 1..Len(last.actions) :
                       last.actions[i].kind = "Victory"}) = 1

\* The number of PassAdvance links among the first n links above h.
RECURSIVE PassAdvances(_, _, _)
PassAdvances(ar, h, n) ==
    IF n = 0 \/ ar[h].parent = None THEN 0
    ELSE (IF ContOf(ar[h]) = "PassAdvance" THEN 1 ELSE 0)
           + PassAdvances(ar, ParentOf(ar[h]), n - 1)

\* C19: the parent links of every reachable arena are acyclic, and the
\* loop of a Victory command ends at a parentless automaton, which is
\* reported as victorious, or at an Advance link, whose parent (in place or
\* cloned) is the last reactivated entry.
VictoryTerminates ==
    /\ \A h \in Handles : ReachesRoot(arena, h, Len(arena))
    /\ OneVictory =>
          LET end == LoopEnd(Before, A, 0, Len(Before))
              re == Result.reactivated
          IN  /\ end[1] # "cycle"
              /\ end[1] = "root" =>
                    /\ Result.victorious # None
                    /\ arena[Result.victorious[1]].parent = None
                    /\ Len(re) = PassAdvances(Before, A, end[2])
              /\ end[1] = "advance" =>
                    /\ Result.victorious = None
                    /\ Len(re) = PassAdvances(Before, A, end[2]) + 1
                    /\ arena[LastOf(re)].rule = Before[end[3]].rule
                    /\ arena[LastOf(re)].route = Before[end[3]].route
                    /\ arena[LastOf(re)].parent = Before[end[3]].parent
                    /\ arena[LastOf(re)].state = Before[end[3]].state + 1

\* C19 witness: a Victory returned that ended after two hops at an Advance
\* link.
VictoryTerminates_Witness ==
    /\ OneVictory
    /\ LoopEnd(Before, A, 0, Len(Before))[1] = "advance"
    /\ LoopEnd(Before, A, 0, Len(Before))[2] = 2
    /\ Result.reactivated # <<>>

\* C19 witness of the other end: a Victory returned that ended after two
\* hops at a parentless automaton.
VictoryTerminates_AtRoot ==
    /\ OneVictory
    /\ LoopEnd(Before, A, 0, Len(Before)) = <<"root", 2>>
    /\ Result.victorious # None

\* A batch of Advance and one single Recruit, in the given order of kinds.
SnapshotBatch(kinds) ==
    /\ Called
    /\ last.op = "command"
    /\ KindsOf(last.actions) = kinds
    /\ \A i \in 1..Len(last.actions) :
          last.actions[i].kind = "Recruit" => last.actions[i].how_many = 1

\* C20: the clone is A as it is when the first spawn needs it: after
\* [Advance, Recruit{1}] the recruit's parent has A's state before the call
\* plus one; after [Recruit{1}, Advance] the parent has A's state before the
\* call, equals A before the call, and only A ends one higher; a call of
\* [Advance] changes no automaton but A.
CloneIsSnapshot ==
    /\ SnapshotBatch(<<"Advance", "Recruit">>) =>
          LET par == ParentOf(arena[Result.new_recruits[1]])
          IN  /\ IsNew(par)
              /\ arena[par].state = Before[A].state + 1
              /\ arena[par] = arena[A]
    /\ SnapshotBatch(<<"Recruit", "Advance">>) =>
          LET par == ParentOf(arena[Result.new_recruits[1]])
          IN  /\ IsNew(par)
              /\ arena[par].state = Before[A].state
              /\ arena[par] = Before[A]
              /\ arena[A].state = Before[A].state + 1
    /\ SnapshotBatch(<<"Advance">>) =>
          /\ Len(arena) = Len(Before)
          /\ \A h \in Old : h # A => arena[h] = Before[h]

\* C20 witness: [Recruit{1}, Advance] returned and the recruit's parent is
\* one state behind A.
CloneIsSnapshot_Witness ==
    /\ SnapshotBatch(<<"Recruit", "Advance">>)
    /\ arena[ParentOf(arena[Result.new_recruits[1]])].state + 1 = arena[A].state

\* C20 witness of the other order: [Advance, Recruit{1}] returned and the
\* recruit's parent is level with A.
CloneIsSnapshot_AdvanceFirst ==
    /\ SnapshotBatch(<<"Advance", "Recruit">>)
    /\ arena[ParentOf(arena[Result.new_recruits[1]])].state = arena[A].state

\* C20 witness of the later call: [Advance] returned on an automaton whose
\* clone is in the arena.
CloneIsSnapshot_LaterAdvance ==
    /\ SnapshotBatch(<<"Advance">>)
    /\ \E h \in Old :
          /\ h # A
          /\ AutomatonEq(Before[h], Before[A])
          /\ \E r \in Old : Before[r].parent # None /\ ParentOf(Before[r]) = h

====
